---- MODULE Spec2Model ----
(***************************************************************************)
(* Model of the `pragma!` procedural macro (ohsayan/pragma).               *)
(*                                                                         *)
(*   grammar.rs : the condition language  (parse_condition and friends,    *)
(*                condition_to_cfg)                                        *)
(*   parse.rs   : PragmaInput / PragmaItem parsing, process_pragma_input   *)
(*   lib.rs     : the macro entry point `pragma`                           *)
(*                                                                         *)
(* A token stream is a sequence of token trees, as proc_macro hands it to  *)
(* the macro: delimited groups are single tokens holding their content.    *)
(***************************************************************************)
EXTENDS Naturals, Sequences, FiniteSets

VARIABLES
    mode,    \* which kind of source text is being written
    open,    \* the token buffers being written; the last is the innermost group
    ntok,    \* how much has been written so far
    ctoks,   \* content of a condition clause, as handed to parse_condition
    cres,    \* what parsing the clause returned
    toks,    \* the token stream handed to the macro
    ast,     \* the PragmaInput built by the parser
    out,     \* what the macro returns
    pc       \* position of the invocation

vars == <<mode, open, ntok, ctoks, cres, toks, ast, out, pc>>

(***************************************************************************)
(* Bounds                                                                  *)
(***************************************************************************)
\* tokens (groups and their content counted) of a clause over the full alphabet
MaxToks == 5
\* tokens of a clause over the alphabet {a, or, ( )}
MaxOpToks == 6
\* tokens of a clause without groups over {a, b, and, or}
MaxFlat == 7
\* declarations (items and modules, nested ones counted) of a macro input
MaxItems == 3
\* tokens of a macro input written token by token
MaxMacroToks == 4

(***************************************************************************)
(* Token trees                                                             *)
(***************************************************************************)
Tok(t, v, g) == [t |-> t, v |-> v, g |-> g]
Id(s)     == Tok("ident", s, <<>>)
EqTok     == Tok("=", "", <<>>)
Lit(s)    == Tok("lit", s, <<>>)
Paren(ts) == Tok("paren", "", ts)
Brace(ts) == Tok("brace", "", ts)
Kw(s)     == Tok("kw", s, <<>>)
Semi      == Tok(";", "", <<>>)
\* one outer attribute, `#[...]` or a doc comment
Attr(s)   == Tok("attr", s, <<>>)
\* the token run of one host-language item, which syn::Item reads whole
ItemTok(s) == Tok("item", s, <<>>)

\* syn's peek: is there a token of kind t at the cursor
Peek(ts, pos, t) == pos <= Len(ts) /\ ts[pos].t = t

(***************************************************************************)
(* grammar.rs: ConditionExpr                                               *)
(***************************************************************************)
Expr(k, id, val, ch) == [k |-> k, id |-> id, val |-> val, ch |-> ch]
All(v)        == Expr("All", "", "", v)
Any(v)        == Expr("Any", "", "", v)
Not(e)        == Expr("Not", "", "", <<e>>)
KeyVal(i, s)  == Expr("KeyVal", i, s, <<>>)
Key(i)        == Expr("Key", i, "", <<>>)
NoExpr        == Expr("None", "", "", <<>>)

(***************************************************************************)
(* ParseResult<ConditionExpr> together with the cursor it leaves behind.   *)
(* unexp records syn's deferred error: a parenthesized! buffer dropped     *)
(* with tokens left in it marks the parse "unexpected token", which the    *)
(* outermost parser reports once the parse function has returned.          *)
(***************************************************************************)
Ok(e, pos, unexp) == [ok |-> TRUE, e |-> e, pos |-> pos, unexp |-> unexp]
Err(pos)          == [ok |-> FALSE, e |-> NoExpr, pos |-> pos, unexp |-> FALSE]

\* a ParseBuffer for a group's content goes out of scope at position pos
Leftover(content, pos) == pos <= Len(content)

RECURSIVE parse_condition(_, _)
RECURSIVE parse_or_expr(_, _)
RECURSIVE or_loop(_, _, _, _)
RECURSIVE parse_and_expr(_, _)
RECURSIVE and_loop(_, _, _, _)
RECURSIVE parse_primary(_, _)

\* grammar.rs:40  ident_peek == "or"
is_or(ident) == ident = "or"

\* grammar.rs:68  ident_peek == "and"
is_and_any_ident(ident) == TRUE
is_and_or_or(ident) == ident \in {"and", "or"}
is_and(ident) == ident = "and"

\* grammar.rs:95  ident == "not"
is_not(ident) == ident = "not"

\* grammar.rs:44-50  fold the next AndExpr into the disjunction
push_any_nested(expr, rhs) == Any(<<expr, rhs>>)
push_any(expr, rhs) ==
    IF expr.k = "Any" THEN Any(Append(expr.ch, rhs)) ELSE Any(<<expr, rhs>>)

\* grammar.rs:72-78  fold the next Primary into the conjunction
push_all_nested(expr, rhs) == All(<<expr, rhs>>)
push_all(expr, rhs) ==
    IF expr.k = "All" THEN All(Append(expr.ch, rhs)) ELSE All(<<expr, rhs>>)

parse_condition(ts, pos) == parse_or_expr(ts, pos)

\* grammar.rs:43-50  rhs is what parse_and_expr returned after an `or`
or_step(ts, expr, ux, rhs) ==
    IF rhs.ok
    THEN or_loop(ts, push_any(expr, rhs.e), rhs.pos, ux \/ rhs.unexp)
    ELSE rhs

\* grammar.rs:36-58  the loop of parse_or_expr, entered with the expression
\* built so far
or_loop(ts, expr, pos, ux) ==
    IF Peek(ts, pos, "ident") /\ is_or(ts[pos].v)
    THEN or_step(ts, expr, ux, parse_and_expr(ts, pos + 1))
    ELSE Ok(expr, pos, ux)

\* grammar.rs:35  lhs is what the first parse_and_expr returned
or_start(ts, lhs) ==
    IF lhs.ok THEN or_loop(ts, lhs.e, lhs.pos, lhs.unexp) ELSE lhs

parse_or_expr(ts, pos) == or_start(ts, parse_and_expr(ts, pos))

\* grammar.rs:71-78  rhs is what parse_primary returned after an `and`
and_step(ts, expr, ux, rhs) ==
    IF rhs.ok
    THEN and_loop(ts, push_all(expr, rhs.e), rhs.pos, ux \/ rhs.unexp)
    ELSE rhs

\* grammar.rs:64-87  the loop of parse_and_expr
and_loop(ts, expr, pos, ux) ==
    IF Peek(ts, pos, "ident") /\ is_and(ts[pos].v)
    THEN and_step(ts, expr, ux, parse_primary(ts, pos + 1))
    ELSE Ok(expr, pos, ux)

\* grammar.rs:63  lhs is what the first parse_primary returned
and_start(ts, lhs) ==
    IF lhs.ok THEN and_loop(ts, lhs.e, lhs.pos, lhs.unexp) ELSE lhs

parse_and_expr(ts, pos) == and_start(ts, parse_primary(ts, pos))

\* grammar.rs:99, 117  inner is what parse_condition returned on the content
\* of the group at pos; the content's buffer is dropped
paren_inner(content, pos, inner) ==
    IF inner.ok
    THEN Ok(inner.e, pos + 1, inner.unexp \/ Leftover(content, inner.pos))
    ELSE Err(pos)

\* grammar.rs:97-99, 113-118  a parenthesised Condition at pos
paren_condition(ts, pos) ==
    IF Peek(ts, pos, "paren")
    THEN paren_inner(ts[pos].g, pos, parse_condition(ts[pos].g, 1))
    ELSE Err(pos)

\* grammar.rs:100  Not(Box::new(inner))
negation(inner) ==
    IF inner.ok THEN Ok(Not(inner.e), inner.pos, inner.unexp) ELSE inner

\* grammar.rs:103-109  a key or key = "val" whose identifier is at pos
key_or_keyval(ts, pos) ==
    IF Peek(ts, pos + 1, "=")
    THEN IF Peek(ts, pos + 2, "lit")
         THEN Ok(KeyVal(ts[pos].v, ts[pos + 2].v), pos + 3, FALSE)
         ELSE Err(pos + 2)
    ELSE Ok(Key(ts[pos].v), pos + 1, FALSE)

parse_primary(ts, pos) ==
    IF Peek(ts, pos, "ident")
    THEN IF is_not(ts[pos].v)
         THEN negation(paren_condition(ts, pos + 1))
         ELSE key_or_keyval(ts, pos)
    ELSE IF Peek(ts, pos, "paren")
         THEN paren_condition(ts, pos)
         ELSE Err(pos)

\* parse.rs:54-55  r is what parse_condition returned on the clause; the
\* clause's buffer is dropped
clause_end(content, r) ==
    IF r.ok THEN Ok(r.e, r.pos, r.unexp \/ Leftover(content, r.pos)) ELSE r

\* parse.rs:50-55 after the `if`: the clause's Condition is parsed in the
\* group's buffer
parse_clause_body(content) == clause_end(content, parse_condition(content, 1))

(***************************************************************************)
(* grammar.rs: condition_to_cfg.  The result is the predicate as the host  *)
(* compiler reads it: all(..), any(..), not(..), name = "value", name.     *)
(***************************************************************************)
Cfg(k, id, val, ch) == [k |-> k, id |-> id, val |-> val, ch |-> ch]
NoCfg == Cfg("none", "", "", <<>>)

RECURSIVE condition_to_cfg(_)
condition_to_cfg(expr) ==
    CASE expr.k = "All" ->
           Cfg("all", "", "", [i \in 1..Len(expr.ch) |-> condition_to_cfg(expr.ch[i])])
      [] expr.k = "Any" ->
           Cfg("any", "", "", [i \in 1..Len(expr.ch) |-> condition_to_cfg(expr.ch[i])])
      [] expr.k = "Not" ->
           Cfg("not", "", "", <<condition_to_cfg(expr.ch[1])>>)
      [] expr.k = "KeyVal" -> Cfg("nameval", expr.id, expr.val, <<>>)
      [] expr.k = "Key" -> Cfg("name", expr.id, "", <<>>)

(***************************************************************************)
(* parse.rs: PragmaItem, PragmaInput                                       *)
(*                                                                         *)
(* A PragmaInput is the sequence of its items.  condition = NoExpr is      *)
(* Option::None.  kind "Normal" carries the opaque item, kind "Mod" the    *)
(* module's ident and its inner PragmaInput.                               *)
(***************************************************************************)
PragmaItem(attrs, visibility, condition, kind, item, ident, content) ==
    [attrs |-> attrs, visibility |-> visibility, condition |-> condition,
     kind |-> kind, item |-> item, ident |-> ident, content |-> content]
NoItem == PragmaItem(<<>>, "inherited", NoExpr, "None", "", "", <<>>)

ItemOk(item, pos, unexp) == [ok |-> TRUE, item |-> item, pos |-> pos, unexp |-> unexp]
ItemErr(pos)             == [ok |-> FALSE, item |-> NoItem, pos |-> pos, unexp |-> FALSE]
ItemsOk(items, pos, unexp) == [ok |-> TRUE, items |-> items, pos |-> pos, unexp |-> unexp]
ItemsErr(pos)              == [ok |-> FALSE, items |-> <<>>, pos |-> pos, unexp |-> FALSE]

RECURSIVE parse_outer(_, _)
RECURSIVE PragmaItem_parse(_, _)
RECURSIVE items_loop(_, _, _, _)

\* parse.rs:45  syn::Attribute::parse_outer: the cursor after the attributes
parse_outer(ts, pos) ==
    IF Peek(ts, pos, "attr") THEN parse_outer(ts, pos + 1) ELSE pos

\* parse.rs:47  Visibility: `pub` followed by the clause's parentheses is
\* plain `pub`; anything else is Visibility::Inherited and consumes nothing
peek_pub(ts, pos) == Peek(ts, pos, "kw") /\ ts[pos].v = "pub"

\* parse.rs:54-55  r is what the clause in the group at pos parsed to
clause_at(pos, r) == IF r.ok THEN Ok(r.e, pos + 1, r.unexp) ELSE Err(pos)

\* parse.rs:50-58  the optional `(if ...)`
parse_clause(ts, pos) ==
    IF Peek(ts, pos, "paren")
    THEN IF Peek(ts[pos].g, 1, "kw") /\ ts[pos].g[1].v = "if"
         THEN clause_at(pos, parse_clause_body(Tail(ts[pos].g)))
         ELSE Err(pos)
    ELSE Ok(NoExpr, pos, FALSE)

\* parse.rs:22-24 and 71-73  the optional `;` after an item
skip_semi(ts, pos) == IF Peek(ts, pos, ";") THEN pos + 1 ELSE pos

\* parse.rs:20 and 69  an item that fails to parse: `?` gives the error up
on_item_error_keep(items, r) == ItemsOk(items, r.pos, FALSE)
on_item_error(items, r) == ItemsErr(r.pos)

\* parse.rs:20-24 and 69-73  r is what PragmaItem::parse returned
item_step(ts, items, ux, r) ==
    IF r.ok
    THEN items_loop(ts, skip_semi(ts, r.pos), Append(items, r.item), ux \/ r.unexp)
    ELSE on_item_error(items, r)

\* parse.rs:19-25 (PragmaInput::parse) and parse.rs:68-74 (a module's body)
items_loop(ts, pos, items, ux) ==
    IF pos > Len(ts)
    THEN ItemsOk(items, pos, ux)
    ELSE item_step(ts, items, ux, PragmaItem_parse(ts, pos))

\* parse.rs:76-85  body is what the loop over the braces' content returned
mod_item(ts, pos, attrs, visibility, c, body) ==
    IF body.ok
    THEN ItemOk(PragmaItem(attrs, visibility, c.e, "Mod", "", ts[pos + 1].v,
                           body.items),
                pos + 3, c.unexp \/ body.unexp)
    ELSE ItemErr(pos + 2)

\* parse.rs:60-85  `mod` at pos: its name, its braces, the items in them
parse_mod(ts, pos, attrs, visibility, c) ==
    IF Peek(ts, pos + 1, "ident") /\ Peek(ts, pos + 2, "brace")
    THEN mod_item(ts, pos, attrs, visibility, c,
                  items_loop(ts[pos + 2].g, 1, <<>>, FALSE))
    ELSE ItemErr(pos + 1)

\* parse.rs:86-95  anything else at pos is read as one host item
parse_normal(ts, pos, attrs, visibility, c) ==
    IF Peek(ts, pos, "item")
    THEN ItemOk(PragmaItem(attrs, visibility, c.e, "Normal", ts[pos].v, "", <<>>),
                pos + 1, c.unexp)
    ELSE ItemErr(pos)

\* parse.rs:60  after the clause c: a module or a normal item
parse_content(ts, attrs, visibility, c) ==
    IF ~c.ok THEN ItemErr(c.pos)
    ELSE IF Peek(ts, c.pos, "kw") /\ ts[c.pos].v = "mod"
         THEN parse_mod(ts, c.pos, attrs, visibility, c)
         ELSE parse_normal(ts, c.pos, attrs, visibility, c)

\* parse.rs:47-58  after the attributes: the visibility, then the clause
parse_visibility(ts, pos, attrs) ==
    IF peek_pub(ts, pos)
    THEN parse_content(ts, attrs, "pub", parse_clause(ts, pos + 1))
    ELSE parse_content(ts, attrs, "inherited", parse_clause(ts, pos))

\* parse.rs:45  the attributes between pos and the cursor after them
attrs_between(ts, pos, after) == [i \in 1..(after - pos) |-> ts[pos + i - 1].v]

\* parse.rs:42-97
PragmaItem_parse(ts, pos) ==
    parse_visibility(ts, parse_outer(ts, pos),
                     attrs_between(ts, pos, parse_outer(ts, pos)))

\* lib.rs:11  an "unexpected token" left behind by a dropped buffer is
\* reported once the parse function has returned
check_unexpected(r) == IF r.ok /\ r.unexp THEN ItemsErr(r.pos) ELSE r

\* parse.rs:16-28 under parse_macro_input! (lib.rs:11): the items, or the error
PragmaInput_parse(ts) == check_unexpected(items_loop(ts, 1, <<>>, FALSE))

(***************************************************************************)
(* parse.rs: process_pragma_input.  The emitted token stream is the        *)
(* sequence of the declarations it holds.  Of each declaration: the        *)
(* predicate of its #[cfg(..)] (NoCfg when it has none), its attributes,   *)
(* its visibility tokens ("" when none are written), what it is, its       *)
(* item or module name, and for a module the declarations in its braces.   *)
(* src is not a token: it records which item of the PragmaInput being      *)
(* processed the declaration was written for.                              *)
(***************************************************************************)
Decl(cfg, attrs, vis, kind, name, inner, src) ==
    [cfg |-> cfg, attrs |-> attrs, vis |-> vis, kind |-> kind, name |-> name,
     inner |-> inner, src |-> src]

\* what #visibility interpolates: nothing for Visibility::Inherited
vis_tokens(visibility) == IF visibility = "inherited" THEN "" ELSE visibility

\* parse.rs:112 and 156  quote! { not(#main_condition) }
inverse_condition_same(main_condition) == main_condition
inverse_condition(main_condition) == Cfg("not", "", "", <<main_condition>>)

\* parse.rs:114 and 158  match &visibility { Visibility::Inherited => .. }
is_inherited_never(visibility) == FALSE
is_inherited(visibility) == visibility = "inherited"

\* parse.rs:135-138 and 183-186  quote! { #public_item #private_item }
both_private_first(public_item, private_item) == <<private_item, public_item>>
both(public_item, private_item) == <<public_item, private_item>>

\* parse.rs:130-134  the copy of a plain item under the inverse condition
private_normal_keeps_vis(i, p, inverse) ==
    Decl(inverse, p.attrs, vis_tokens(p.visibility), "item", p.item, <<>>, i)
private_normal(i, p, inverse) ==
    Decl(inverse, p.attrs, "", "item", p.item, <<>>, i)

\* parse.rs:176-182  the copy of a module under the inverse condition
private_mod_empty(i, p, inverse, inner_tokens) ==
    Decl(inverse, p.attrs, "", "mod", p.ident, <<>>, i)
private_mod(i, p, inverse, inner_tokens) ==
    Decl(inverse, p.attrs, "", "mod", p.ident, inner_tokens, i)

\* parse.rs:109-148  PragmaItemContent::Normal
normal_tokens(i, p) ==
    IF p.condition # NoExpr
    THEN LET main_condition == condition_to_cfg(p.condition)
             inverse == inverse_condition(main_condition)
         IN  IF is_inherited(p.visibility)
             THEN <<Decl(main_condition, p.attrs, "", "item", p.item, <<>>, i)>>
             ELSE both(Decl(main_condition, p.attrs, vis_tokens(p.visibility),
                            "item", p.item, <<>>, i),
                       private_normal(i, p, inverse))
    ELSE <<Decl(NoCfg, p.attrs, vis_tokens(p.visibility), "item", p.item, <<>>, i)>>

\* parse.rs:154-197  PragmaItemContent::Mod, its body already processed
mod_tokens(i, p, inner_tokens) ==
    IF p.condition # NoExpr
    THEN LET main_condition == condition_to_cfg(p.condition)
             inverse == inverse_condition(main_condition)
         IN  IF is_inherited(p.visibility)
             THEN <<Decl(main_condition, p.attrs, "", "mod", p.ident,
                         inner_tokens, i)>>
             ELSE both(Decl(main_condition, p.attrs, vis_tokens(p.visibility),
                            "mod", p.ident, inner_tokens, i),
                       private_mod(i, p, inverse, inner_tokens))
    ELSE <<Decl(NoCfg, p.attrs, vis_tokens(p.visibility), "mod", p.ident,
                inner_tokens, i)>>

RECURSIVE process_pragma_input(_)
RECURSIVE tokens_from(_, _)
RECURSIVE tokens_down_from(_, _)

\* parse.rs:100-200  the closure mapped over the items
item_tokens(i, p) ==
    IF p.kind = "Normal"
    THEN normal_tokens(i, p)
    ELSE mod_tokens(i, p, process_pragma_input(p.content))

\* parse.rs:100, 202-204  #(#tokens)* over items i, i+1, ..
tokens_from(items, i) ==
    IF i > Len(items) THEN <<>>
    ELSE item_tokens(i, items[i]) \o tokens_from(items, i + 1)

\* the same, last item first
tokens_down_from(items, i) ==
    IF i < 1 THEN <<>>
    ELSE item_tokens(i, items[i]) \o tokens_down_from(items, i - 1)

process_pragma_input_reversed(input) == tokens_down_from(input, Len(input))
process_pragma_input(input) == tokens_from(input, 1)

\* lib.rs:11  what parse_macro_input! returns on a parse error
CompileError == <<Decl(NoCfg, <<>>, "", "compile_error", "", <<>>, 0)>>

(***************************************************************************)
(* The source text.  What the macro is invoked on is written before the    *)
(* invocation: the host compiler hands the macro token trees, so a stream  *)
(* reaches a parser only once every group opened in it has been closed.    *)
(*                                                                         *)
(*   mode "full", "ops", "flat" : a condition clause, token by token       *)
(*   mode "macro"               : a macro input, token by token            *)
(*   mode "plain", "documented" : a macro input, declaration by            *)
(*                                declaration, each one without attributes *)
(*                                or each one with a doc comment           *)
(***************************************************************************)
Atoms     == {Id("a"), Id("b"), Id("and"), Id("or"), Id("not"), EqTok, Lit("v")}
OpAtoms   == {Id("a"), Id("or")}
FlatAtoms == {Id("a"), Id("b"), Id("and"), Id("or")}

\* the clauses a macro input written token by token may hold: `(if a)`,
\* `(if a =)`, `(if a b)` and `(a)`
MacroClauses ==
    {Paren(<<Kw("if"), Id("a")>>), Paren(<<Kw("if"), Id("a"), EqTok>>),
     Paren(<<Kw("if"), Id("a"), Id("b")>>), Paren(<<Id("a")>>)}
MacroAtoms ==
    {Kw("pub"), Kw("mod"), Id("m"), ItemTok("f"), Semi} \cup MacroClauses

\* the conditions a declaration may be written with: `a` and
\* `not(a) and b = "v" or b`
ClauseA == <<Id("a")>>
ClauseB == <<Id("not"), Paren(<<Id("a")>>), Id("and"), Id("b"), EqTok, Lit("v"),
             Id("or"), Id("b")>>
DeclClauses == {<<>>, ClauseA, ClauseB}
DeclAttrs(m) == IF m = "documented" THEN <<Attr("doc")>> ELSE <<>>
DeclVis     == {"inherited", "pub"}

Alphabet(m) ==
    CASE m = "full" -> Atoms
      [] m = "ops" -> OpAtoms
      [] m = "flat" -> FlatAtoms
      [] m = "macro" -> MacroAtoms
      [] OTHER -> {}

Budget(m) ==
    CASE m = "full" -> MaxToks
      [] m = "ops" -> MaxOpToks
      [] m = "flat" -> MaxFlat
      [] m = "macro" -> MaxMacroToks
      [] OTHER -> MaxItems

\* the group a mode's text may open
Group(m, ts) == IF m \in {"full", "ops"} THEN Paren(ts) ELSE Brace(ts)

\* the innermost open buffer gets the tokens ts
Written(ts) == [open EXCEPT ![Len(open)] = @ \o ts]

\* the tokens before a declaration's `mod` or item: attributes, visibility
\* and the `(if ...)` clause; the empty clause stands for none
Header(attrs, visibility, clause) ==
    attrs \o (IF visibility = "pub" THEN <<Kw("pub")>> ELSE <<>>)
          \o (IF clause = <<>> THEN <<>> ELSE <<Paren(<<Kw("if")>> \o clause)>>)

LexAtom ==
    /\ pc = "lex"
    /\ ntok < Budget(mode)
    /\ \E t \in Alphabet(mode) : open' = Written(<<t>>)
    /\ ntok' = ntok + 1
    /\ UNCHANGED <<mode, ctoks, cres, toks, ast, out, pc>>

LexOpen ==
    /\ pc = "lex"
    /\ mode \in {"full", "ops", "macro"}
    /\ ntok < Budget(mode)
    /\ open' = Append(open, <<>>)
    /\ ntok' = ntok + 1
    /\ UNCHANGED <<mode, ctoks, cres, toks, ast, out, pc>>

LexClose ==
    /\ pc = "lex"
    /\ Len(open) > 1
    /\ open' = SubSeq(open, 1, Len(open) - 2)
                 \o <<Append(open[Len(open) - 1], Group(mode, open[Len(open)]))>>
    /\ UNCHANGED <<mode, ntok, ctoks, cres, toks, ast, out, pc>>

WriteItem ==
    /\ pc = "lex"
    /\ mode \in {"plain", "documented"}
    /\ ntok < Budget(mode)
    /\ \E v \in DeclVis, c \in DeclClauses :
          open' = Written(Header(DeclAttrs(mode), v, c) \o <<ItemTok("f")>>)
    /\ ntok' = ntok + 1
    /\ UNCHANGED <<mode, ctoks, cres, toks, ast, out, pc>>

OpenMod ==
    /\ pc = "lex"
    /\ mode \in {"plain", "documented"}
    /\ ntok < Budget(mode)
    /\ \E v \in DeclVis, c \in DeclClauses :
          open' = Append(Written(Header(DeclAttrs(mode), v, c)
                                   \o <<Kw("mod"), Id("m")>>), <<>>)
    /\ ntok' = ntok + 1
    /\ UNCHANGED <<mode, ctoks, cres, toks, ast, out, pc>>

(***************************************************************************)
(* The invocations                                                         *)
(***************************************************************************)
NoResult == [ok |-> FALSE, e |-> NoExpr, pos |-> 0, unexp |-> FALSE]

\* a condition clause is parsed (parse.rs:50-55 from the `if` on)
ParseClause ==
    /\ pc = "lex"
    /\ mode \in {"full", "ops", "flat"}
    /\ Len(open) = 1
    /\ ctoks' = open[1]
    /\ cres' = parse_clause_body(open[1])
    /\ pc' = "clause_done"
    /\ UNCHANGED <<mode, open, ntok, toks, ast, out>>

\* lib.rs:11  parse_macro_input!(input as parse::PragmaInput)
MacroParse ==
    /\ pc = "lex"
    /\ mode \in {"macro", "plain", "documented"}
    /\ Len(open) = 1
    /\ toks' = open[1]
    /\ \E r \in {PragmaInput_parse(open[1])} :
          IF r.ok
          THEN ast' = r.items /\ pc' = "parsed" /\ out' = out
          ELSE ast' = ast /\ pc' = "error" /\ out' = CompileError
    /\ UNCHANGED <<mode, open, ntok, ctoks, cres>>

\* lib.rs:12-13  process_pragma_input(input) and its return
Process ==
    /\ pc = "parsed"
    /\ out' = process_pragma_input(ast)
    /\ pc' = "done"
    /\ UNCHANGED <<mode, open, ntok, ctoks, cres, toks, ast>>

InitAll ==
    /\ open = <<<<>>>>
    /\ ntok = 0
    /\ ctoks = <<>>
    /\ cres = NoResult
    /\ toks = <<>>
    /\ ast = <<>>
    /\ out = <<>>
    /\ pc = "lex"

\* SpecCond: a condition clause is written and parsed
InitCond == mode \in {"full", "ops", "flat"} /\ InitAll
NextCond == LexAtom \/ LexOpen \/ LexClose \/ ParseClause
SpecCond == InitCond /\ [][NextCond]_vars

\* Spec: declarations are written, the macro parses and transforms them
Init == mode \in {"plain", "documented"} /\ InitAll
Next == WriteItem \/ OpenMod \/ LexClose \/ MacroParse \/ Process
Spec == Init /\ [][Next]_vars

\* SpecMacro: any tokens are written, the macro parses and transforms them
InitMacro == mode = "macro" /\ InitAll
NextMacro == LexAtom \/ LexOpen \/ LexClose \/ MacroParse \/ Process
SpecMacro == InitMacro /\ [][NextMacro]_vars

(***************************************************************************)
(* Properties of the item transformer (Spec)                               *)
(***************************************************************************)
\* the declarations of one emitted level written for item i of that level
CopiesOf(ds, i) == SelectSeq(ds, LAMBDA d : d.src = i)

Conditional(p) == p.condition # NoExpr
Explicit(p)    == p.visibility # "inherited"
Negated(c)     == Cfg("not", "", "", <<c>>)

\* d is a copy of p: p's attributes and p's body (the item, or the module's
\* name; a module's braces are compared by the claims that speak of them)
CopyOf(d, p) ==
    /\ d.attrs = p.attrs
    /\ IF p.kind = "Normal"
       THEN d.kind = "item" /\ d.name = p.item /\ d.inner = <<>>
       ELSE d.kind = "mod" /\ d.name = p.ident

RECURSIVE DuplicatedAtEveryLevel(_, _)
DuplicatedAtEveryLevel(items, ds) ==
    \A i \in 1..Len(items) :
        LET p  == items[i]
            cs == CopiesOf(ds, i)
        IN  /\ (Conditional(p) /\ Explicit(p)) =>
                  /\ Len(cs) = 2
                  /\ cs[1].cfg = condition_to_cfg(p.condition)
                  /\ cs[1].vis = p.visibility
                  /\ cs[2].cfg = Negated(condition_to_cfg(p.condition))
                  /\ cs[2].vis = ""
                  /\ CopyOf(cs[1], p) /\ CopyOf(cs[2], p)
                  /\ cs[1].inner = cs[2].inner
            /\ p.kind = "Mod" =>
                  \A k \in 1..Len(cs) : DuplicatedAtEveryLevel(p.content, cs[k].inner)

\* C1: an item or module with a condition C and an explicit visibility is
\* emitted as exactly two copies: the first under cfg(C) with the visibility,
\* the second under cfg(not(C)) without it; both carry the attributes and the
\* same body.
C1_TwoGuardedCopies == pc = "done" => DuplicatedAtEveryLevel(ast, out)

C1_Witness ==
    /\ pc = "done"
    /\ \E i \in 1..Len(ast) :
          /\ ast[i].kind = "Normal" /\ Conditional(ast[i]) /\ Explicit(ast[i])
          /\ ast[i].attrs = <<"doc">>
          /\ Len(CopiesOf(out, i)) = 2
    /\ \E i \in 1..Len(ast) :
          /\ ast[i].kind = "Mod" /\ Conditional(ast[i]) /\ Explicit(ast[i])
          /\ Len(CopiesOf(out, i)) = 2

\* the guards and the visibilities the emission policy gives p's copies
PolicyGuards(p) ==
    IF ~Conditional(p) THEN <<NoCfg>>
    ELSE IF ~Explicit(p) THEN <<condition_to_cfg(p.condition)>>
    ELSE <<condition_to_cfg(p.condition), Negated(condition_to_cfg(p.condition))>>
PolicyVis(p) ==
    IF ~Conditional(p) THEN <<vis_tokens(p.visibility)>>
    ELSE IF ~Explicit(p) THEN <<"">>
    ELSE <<p.visibility, "">>

\* ds is items transformed by the per-item policy, at every depth below
RECURSIVE Transformed(_, _)
Transformed(items, ds) ==
    /\ \A k \in 1..Len(ds) : ds[k].src \in 1..Len(items)
    /\ \A i \in 1..Len(items) :
          LET p  == items[i]
              cs == CopiesOf(ds, i)
          IN  /\ [k \in 1..Len(cs) |-> cs[k].cfg] = PolicyGuards(p)
              /\ [k \in 1..Len(cs) |-> cs[k].vis] = PolicyVis(p)
              /\ \A k \in 1..Len(cs) :
                    /\ CopyOf(cs[k], p)
                    /\ p.kind = "Mod" => Transformed(p.content, cs[k].inner)

RECURSIVE ModulesCarryTransformedBody(_, _)
ModulesCarryTransformedBody(items, ds) ==
    \A i \in 1..Len(items) :
        LET p  == items[i]
            cs == CopiesOf(ds, i)
        IN  p.kind = "Mod" =>
              /\ (Conditional(p) /\ Explicit(p)) =>
                    /\ Len(cs) = 2
                    /\ cs[1].cfg = condition_to_cfg(p.condition)
                    /\ cs[1].vis = p.visibility
                    /\ cs[2].cfg = Negated(condition_to_cfg(p.condition))
                    /\ cs[2].vis = ""
                    /\ \A k \in 1..2 : Transformed(p.content, cs[k].inner)
              /\ \A k \in 1..Len(cs) :
                    ModulesCarryTransformedBody(p.content, cs[k].inner)

\* C2: a module with a condition and an explicit visibility is emitted as two
\* guarded copies, and each copy holds the module's body with every inner
\* declaration transformed by the per-item policy, at every nesting depth.
C2_NestedModuleBodies == pc = "done" => ModulesCarryTransformedBody(ast, out)

C2_Witness ==
    /\ pc = "done"
    /\ Len(ast) = 1
    /\ ast[1].kind = "Mod" /\ Conditional(ast[1]) /\ Explicit(ast[1])
    /\ Len(ast[1].content) = 1
    /\ LET m == ast[1].content[1]
       IN  /\ m.kind = "Mod" /\ Conditional(m) /\ Explicit(m)
           /\ Len(m.content) = 1
           /\ Conditional(m.content[1]) /\ Explicit(m.content[1])
    /\ Len(out) = 2
    /\ \A k \in 1..2 :
          /\ Len(out[k].inner) = 2
          /\ \A j \in 1..2 : Len(out[k].inner[j].inner) = 2

RECURSIVE SingleAtEveryLevel(_, _)
SingleAtEveryLevel(items, ds) ==
    \A i \in 1..Len(items) :
        LET p  == items[i]
            cs == CopiesOf(ds, i)
        IN  /\ (Conditional(p) /\ ~Explicit(p)) =>
                  /\ Len(cs) = 1
                  /\ cs[1].cfg = condition_to_cfg(p.condition)
                  /\ cs[1].vis = ""
                  /\ CopyOf(cs[1], p)
                  /\ \A k \in 1..Len(ds) :
                        ds[k].cfg = Negated(condition_to_cfg(p.condition))
                          => ds[k].src # i
            /\ p.kind = "Mod" =>
                  \A k \in 1..Len(cs) : SingleAtEveryLevel(p.content, cs[k].inner)

\* C3: an item or module with a condition C and inherited visibility is
\* emitted as exactly one copy, under cfg(C), without visibility tokens, and
\* with no copy under the negation of C.
C3_SingleGuardedCopy == pc = "done" => SingleAtEveryLevel(ast, out)

C3_Witness ==
    /\ pc = "done"
    /\ \E i \in 1..Len(ast) :
          /\ ast[i].kind = "Normal" /\ Conditional(ast[i]) /\ ~Explicit(ast[i])
          /\ Len(CopiesOf(out, i)) = 1
    /\ \E i \in 1..Len(ast) :
          /\ ast[i].kind = "Mod" /\ Conditional(ast[i]) /\ ~Explicit(ast[i])
          /\ Len(CopiesOf(out, i)) = 1

RECURSIVE InInputOrder(_, _)
InInputOrder(items, ds) ==
    /\ \A k \in 1..Len(ds) : ds[k].src \in 1..Len(items)
    /\ \A k \in 1..(Len(ds) - 1) :
          \/ ds[k].src < ds[k + 1].src
          \/ /\ ds[k].src = ds[k + 1].src
             /\ ds[k].cfg = condition_to_cfg(items[ds[k].src].condition)
             /\ ds[k + 1].cfg = Negated(ds[k].cfg)
    /\ \A k \in 1..Len(ds) :
          items[ds[k].src].kind = "Mod"
            => InInputOrder(items[ds[k].src].content, ds[k].inner)

\* C9: at every nesting level the copies of item i come before the copies of
\* item j whenever i < j, and the two copies of a duplicated item are
\* adjacent, the one under the condition right before the one under its
\* negation.
C9_InputOrder == pc = "done" => InInputOrder(ast, out)

C9_Witness ==
    /\ pc = "done"
    /\ Len(ast) = 1
    /\ ast[1].kind = "Mod" /\ Conditional(ast[1]) /\ Explicit(ast[1])
    /\ Len(ast[1].content) = 2
    /\ \A j \in 1..2 : Conditional(ast[1].content[j]) /\ Explicit(ast[1].content[j])
    /\ [k \in 1..Len(out) |-> out[k].src] = <<1, 1>>
    /\ \A c \in 1..2 :
          [k \in 1..Len(out[c].inner) |-> out[c].inner[k].src] = <<1, 1, 2, 2>>

(***************************************************************************)
(* A configuration is the set of predicates the host compiler holds true:  *)
(* [id, val] with val = "" for a bare name.                                *)
(***************************************************************************)
Flag(id, val) == [id |-> id, val |-> val]
Flags == {Flag("a", ""), Flag("b", ""), Flag("b", "v")}

\* what a condition means: `and` all, `or` any, `not` none
RECURSIVE CondHolds(_, _)
CondHolds(e, cfgs) ==
    CASE e.k = "All" -> \A i \in 1..Len(e.ch) : CondHolds(e.ch[i], cfgs)
      [] e.k = "Any" -> \E i \in 1..Len(e.ch) : CondHolds(e.ch[i], cfgs)
      [] e.k = "Not" -> ~CondHolds(e.ch[1], cfgs)
      [] e.k = "KeyVal" -> Flag(e.id, e.val) \in cfgs
      [] e.k = "Key" -> Flag(e.id, "") \in cfgs

\* how the host compiler evaluates the predicate of a #[cfg(..)]
RECURSIVE CfgHolds(_, _)
CfgHolds(c, cfgs) ==
    CASE c.k = "none" -> TRUE
      [] c.k = "all" -> \A i \in 1..Len(c.ch) : CfgHolds(c.ch[i], cfgs)
      [] c.k = "any" -> \E i \in 1..Len(c.ch) : CfgHolds(c.ch[i], cfgs)
      [] c.k = "not" -> Len(c.ch) = 1 /\ ~CfgHolds(c.ch[1], cfgs)
      [] c.k = "nameval" -> Flag(c.id, c.val) \in cfgs
      [] c.k = "name" -> Flag(c.id, "") \in cfgs

\* the copies the host compiler keeps
Kept(cs, cfgs) == SelectSeq(cs, LAMBDA d : CfgHolds(d.cfg, cfgs))

\* included: the enclosing modules are all kept
RECURSIVE OneCopySurvives(_, _, _, _)
OneCopySurvives(items, ds, cfgs, included) ==
    \A i \in 1..Len(items) :
        LET p    == items[i]
            cs   == CopiesOf(ds, i)
            kept == Kept(cs, cfgs)
        IN  /\ Len(kept) <= 1
            /\ (included /\ Conditional(p) /\ Explicit(p)) =>
                  /\ Len(kept) = 1
                  /\ (kept[1].vis = p.visibility) <=> CondHolds(p.condition, cfgs)
            /\ p.kind = "Mod" =>
                  \A k \in 1..Len(cs) :
                      OneCopySurvives(p.content, cs[k].inner, cfgs,
                                      included /\ CfgHolds(cs[k].cfg, cfgs))

\* C10: under every configuration at most one copy of an input item survives
\* in an enclosing scope; of an item with a condition and an explicit
\* visibility whose enclosing modules are included exactly one survives, the
\* visible one iff the condition holds; at every nesting depth.
C10_ExclusiveGuards ==
    pc = "done" => \A cfgs \in SUBSET Flags : OneCopySurvives(ast, out, cfgs, TRUE)

C10_Witness ==
    /\ pc = "done"
    /\ \E i \in 1..Len(ast) :
          /\ ast[i].kind = "Mod" /\ Conditional(ast[i]) /\ Explicit(ast[i])
          /\ Len(ast[i].content) = 1
          /\ Conditional(ast[i].content[1]) /\ Explicit(ast[i].content[1])
          /\ ast[i].content[1].condition # ast[i].condition
          /\ \E cfgs \in SUBSET Flags :
                /\ ~CondHolds(ast[i].condition, cfgs)
                /\ CondHolds(ast[i].content[1].condition, cfgs)
                /\ Len(Kept(CopiesOf(out, i), cfgs)) = 1
                /\ Len(Kept(Kept(CopiesOf(out, i), cfgs)[1].inner, cfgs)) = 1

(***************************************************************************)
(* Properties of the macro on arbitrary input (SpecMacro)                  *)
(***************************************************************************)
RECURSIVE DanglingEq(_)
\* somewhere in ts, at any depth, an `=` is not followed by a string literal
DanglingEq(ts) ==
    \E k \in 1..Len(ts) :
        \/ ts[k].t = "=" /\ ~Peek(ts, k + 1, "lit")
        \/ DanglingEq(ts[k].g)

RECURSIVE ModWithoutBody(_)
\* somewhere in ts, at any depth, a `mod` is not followed by a name and braces
ModWithoutBody(ts) ==
    \E k \in 1..Len(ts) :
        \/ /\ ts[k] = Kw("mod")
           /\ ~(Peek(ts, k + 1, "ident") /\ Peek(ts, k + 2, "brace"))
        \/ ModWithoutBody(ts[k].g)

RECURSIVE ClauseWithoutIf(_)
\* somewhere in ts, at any depth, a clause's parentheses do not start with `if`
ClauseWithoutIf(ts) ==
    \E k \in 1..Len(ts) :
        \/ ts[k].t = "paren" /\ ~(Peek(ts[k].g, 1, "kw") /\ ts[k].g[1].v = "if")
        \/ ts[k].t = "brace" /\ ClauseWithoutIf(ts[k].g)

Malformed(ts) == DanglingEq(ts) \/ ModWithoutBody(ts) \/ ClauseWithoutIf(ts)

\* C4: a parse failure in an item, a nested module body or a condition clause
\* makes the invocation return the error and nothing else: nothing parsed
\* before the failure is kept or emitted, and process_pragma_input runs only
\* on an input that parsed whole.  A KeyVal without its literal, a module
\* without its body and a clause without its `if` are such failures.
C4_NoPartialOutput ==
    /\ pc = "error" => out = CompileError /\ ast = <<>>
    /\ pc \in {"parsed", "done"} => ~Malformed(toks)
    /\ pc \in {"lex", "parsed"} => out = <<>>
    /\ pc = "done" => \A k \in 1..Len(out) : out[k].kind # "compile_error"

C4_Witness ==
    /\ pc = "error"
    /\ out = CompileError
    /\ Len(toks) = 3
    /\ toks[1] = ItemTok("f")
    /\ toks[2] = Kw("mod") /\ toks[3] = Id("m")

(***************************************************************************)
(* Properties of the condition parser (SpecCond)                           *)
(***************************************************************************)
Parsed == pc = "clause_done"

\* the tokens of the Key or KeyVal primary at pos: 1, 3, or 0 when there is none
KeyLen(ts, pos) ==
    IF Peek(ts, pos, "ident") /\ ts[pos].v # "not"
    THEN IF Peek(ts, pos + 1, "=")
         THEN IF Peek(ts, pos + 2, "lit") THEN 3 ELSE 0
         ELSE 1
    ELSE 0

KeyAt(ts, pos) ==
    IF KeyLen(ts, pos) = 3 THEN KeyVal(ts[pos].v, ts[pos + 2].v) ELSE Key(ts[pos].v)

\* the tokens of the primary at pos, of any kind, or 0
PrimLen(ts, pos) ==
    IF Peek(ts, pos, "paren") THEN 1
    ELSE IF Peek(ts, pos, "ident") /\ ts[pos].v = "not"
         THEN IF Peek(ts, pos + 1, "paren") THEN 2 ELSE 0
         ELSE KeyLen(ts, pos)

IsOperator(ts, pos) == Peek(ts, pos, "ident") /\ ts[pos].v \in {"and", "or"}

\* ts from pos read as Key/KeyVal primaries joined by `and` and `or`: the
\* primaries, each with the operator written before it ("" for the first)
RECURSIVE KeyChain(_, _, _, _)
KeyChain(ts, pos, op, links) ==
    LET n    == KeyLen(ts, pos)
        next == Append(links, [op |-> op, p |-> KeyAt(ts, pos)])
    IN  IF n = 0 THEN [ok |-> FALSE, links |-> <<>>]
        ELSE IF pos + n > Len(ts) THEN [ok |-> TRUE, links |-> next]
        ELSE IF IsOperator(ts, pos + n)
             THEN KeyChain(ts, pos + n + 1, ts[pos + n].v, next)
             ELSE [ok |-> FALSE, links |-> <<>>]

\* the maximal runs of `and`-joined primaries of a chain, in order
RECURSIVE AndRuns(_, _, _, _)
AndRuns(links, k, run, runs) ==
    IF k > Len(links) THEN Append(runs, run)
    ELSE IF links[k].op = "or"
         THEN AndRuns(links, k + 1, <<links[k].p>>, Append(runs, run))
         ELSE AndRuns(links, k + 1, Append(run, links[k].p), runs)

RunNode(run) == IF Len(run) = 1 THEN run[1] ELSE All(run)

Grouped(links) ==
    LET runs == AndRuns(links, 2, <<links[1].p>>, <<>>)
    IN  IF Len(runs) = 1 THEN RunNode(runs[1])
        ELSE Any([i \in 1..Len(runs) |-> RunNode(runs[i])])

\* C6: `and` binds tighter than `or`: of primaries joined by `and` and `or`
\* without parentheses, each maximal run of `and`-joined primaries becomes one
\* All node (a single primary stays bare), and the runs are joined in order
\* under one Any node.
C6_AndBindsTighter ==
    Parsed =>
        LET chain == KeyChain(ctoks, 1, "", <<>>)
        IN  (chain.ok /\ Len(chain.links) >= 2) =>
                cres = Ok(Grouped(chain.links), Len(ctoks) + 1, FALSE)

C6_Witness ==
    /\ Parsed
    /\ ctoks = <<Id("a"), Id("and"), Id("b"), Id("or"), Id("b"), Id("and"), Id("a")>>
    /\ cres.e = Any(<<All(<<Key("a"), Key("b")>>), All(<<Key("b"), Key("a")>>)>>)

\* ts from pos split at the `or`s that join its AndExprs (primaries of any
\* kind joined by `and`): the token runs of the AndExprs, in order
RECURSIVE OrSplit(_, _, _, _)
OrSplit(ts, pos, start, segs) ==
    LET n == PrimLen(ts, pos)
    IN  IF n = 0 THEN [ok |-> FALSE, segs |-> <<>>]
        ELSE IF pos + n > Len(ts)
             THEN [ok |-> TRUE, segs |-> Append(segs, SubSeq(ts, start, Len(ts)))]
        ELSE IF Peek(ts, pos + n, "ident") /\ ts[pos + n].v = "and"
             THEN OrSplit(ts, pos + n + 1, start, segs)
        ELSE IF Peek(ts, pos + n, "ident") /\ ts[pos + n].v = "or"
             THEN OrSplit(ts, pos + n + 1, pos + n + 1,
                          Append(segs, SubSeq(ts, start, pos + n - 1)))
             ELSE [ok |-> FALSE, segs |-> <<>>]

\* the AndExpr a token run is
AndExprOf(seg) == parse_and_expr(seg, 1).e

AllAnds(links) == \A k \in 2..Len(links) : links[k].op = "and"

\* C7, first half: n >= 2 Key/KeyVal primaries joined only by `and` give one
\* All node whose children are exactly those primaries, in order.
AndChainFlat ==
    LET chain == KeyChain(ctoks, 1, "", <<>>)
    IN  (chain.ok /\ Len(chain.links) >= 2 /\ AllAnds(chain.links)) =>
            /\ cres.ok
            /\ cres.e = All([k \in 1..Len(chain.links) |-> chain.links[k].p])
            /\ \A k \in 1..Len(cres.e.ch) : cres.e.ch[k].k # "All"

\* C7 as claimed: (first half, and) n >= 2 AndExprs joined only by `or` give
\* one Any node with exactly n children.
C7_AsClaimed ==
    Parsed =>
        /\ AndChainFlat
        /\ LET split == OrSplit(ctoks, 1, 1, <<>>)
           IN  (split.ok /\ Len(split.segs) >= 2 /\ cres.ok) =>
                   /\ cres.e.k = "Any"
                   /\ Len(cres.e.ch) = Len(split.segs)

\* C7 as amended: (first half, and) n >= 2 AndExprs joined only by `or` give
\* one Any node whose children are those AndExprs in order, except that a
\* first AndExpr that is itself an Any node (a parenthesised `or` chain) is
\* merged into the node child by child; so the node has exactly n children
\* when the first AndExpr is no Any node, and its first child is never an Any
\* node.
C7_Flattened ==
    Parsed =>
        /\ AndChainFlat
        /\ LET split == OrSplit(ctoks, 1, 1, <<>>)
               n     == Len(split.segs)
               first == AndExprOf(split.segs[1])
               rest  == [k \in 1..(n - 1) |-> AndExprOf(split.segs[k + 1])]
           IN  (split.ok /\ n >= 2 /\ cres.ok) =>
                   /\ cres.e.k = "Any"
                   /\ cres.e.ch = (IF first.k = "Any" THEN first.ch ELSE <<first>>) \o rest
                   /\ first.k # "Any" => Len(cres.e.ch) = n
                   /\ cres.e.ch[1].k # "Any"

C7_Witness ==
    /\ Parsed
    /\ ctoks = <<Paren(<<Id("a"), Id("or"), Id("a")>>), Id("or"), Id("a")>>
    /\ cres.ok
    /\ cres.e = Any(<<Key("a"), Key("a"), Key("a")>>)

RECURSIVE Leftmost(_)
Leftmost(e) == IF e.ch = <<>> THEN e ELSE Leftmost(e.ch[1])

\* C8: an identifier `and` or `or` where a Primary is expected is the key of
\* that name, not an error and not the operator; after a primary the next
\* identifier is consumed exactly when it is `and` or `or`, and any other
\* identifier is left in the stream.
C8_KeywordOrKey ==
    Parsed =>
        /\ (IsOperator(ctoks, 1) /\ ~Peek(ctoks, 2, "=")) =>
              /\ Len(ctoks) = 1 => cres = Ok(Key(ctoks[1].v), 2, FALSE)
              /\ cres.ok => Leftmost(cres.e) = Key(ctoks[1].v)
              /\ ~cres.ok => cres.pos > 1
        /\ LET n == KeyLen(ctoks, 1)
           IN  (n > 0 /\ Peek(ctoks, n + 1, "ident")) =>
                   IF IsOperator(ctoks, n + 1)
                   THEN cres.pos > n + 1
                   ELSE cres = Ok(KeyAt(ctoks, 1), n + 1, TRUE)

C8_Witness ==
    /\ Parsed
    /\ ctoks = <<Id("and"), Id("and"), Id("or"), Id("b")>>
    /\ cres = Ok(All(<<Key("and"), Key("or")>>), 4, TRUE)

\* C5 as claimed: `not` is the negation only before a parenthesised
\* condition: `not(a)` is Not(Key(a)), and an identifier `not` not followed
\* by `(` is the key of that name: alone it is Key("not"), and in
\* `not and b` it is the first operand.
C5_AsClaimed ==
    Parsed =>
        /\ \A x \in {"a", "b"} :
              ctoks = <<Id("not"), Paren(<<Id(x)>>)>> => cres = Ok(Not(Key(x)), 3, FALSE)
        /\ ctoks = <<Id("not")>> => cres = Ok(Key("not"), 2, FALSE)
        /\ \A x \in {"a", "b"} :
              ctoks = <<Id("not"), Id("and"), Id(x)>>
                => cres = Ok(All(<<Key("not"), Key(x)>>), 4, FALSE)

====
